---- MODULE Spec2Model ----
(***************************************************************************)
(* Model of script.js: the elastic grid background (point lattice, cursor  *)
(* repulsion, spring return, mesh lines, frame loop) and the contact form  *)
(* submit handler.                                                         *)
(*                                                                         *)
(* Numbers.  JavaScript computes with doubles; the model computes in fixed *)
(* point: a length of one pixel is Scale units, every product is rounded   *)
(* to the nearest unit (RDiv).  Pixel inputs (canvas size, clientX/Y, the  *)
(* lattice anchors) are integers and are exact.                            *)
(***************************************************************************)
EXTENDS Integers, Sequences, FiniteSets, TLC

VARIABLES
  \* the page: whether #particleCanvas exists and getContext('2d') gave a context
  canvas, ctx,
  \* window.innerWidth / innerHeight, canvas.width / canvas.height (pixels)
  innerW, innerH, width, height,
  \* the globals of script.js
  points, mouseX, mouseY,
  \* "load" before the script has run, "run" after
  pc,
  \* event types with a registered handler, pending requestAnimationFrame callbacks
  listeners, pendingFrames,
  \* executions of animate() that passed its guard, clock (Date.now(), milliseconds,
  \* modulo the drift period)
  frames, now,
  \* what the last frame did: the line segments it put on the path (pairs of point
  \* indices) and the points whose repulsion branch it took
  segments, repelled,
  \* whether the collection the last resize dropped held a point in motion, the last
  \* handler that ran and the coordinates of the last pointer-move event
  discarded, lastEvent, lastClient,
  \* the contact form: field values, submit button, status line, sends in flight,
  \* submit events so far
  fields, btnText, btnDisabled, statusText, sends, submits,
  \* a Point driven directly through update(), and a lattice built by initGrid()
  bench, lattice

rvars == <<canvas, ctx, innerW, innerH, width, height, points, mouseX, mouseY, pc,
           listeners, pendingFrames, frames, now, segments, repelled, discarded,
           lastEvent, lastClient>>
fvars == <<fields, btnText, btnDisabled, statusText, sends, submits>>
vars == <<rvars, fvars, bench, lattice>>

----------------------------------------------------------------------------
(* Bounds of the model *)

\* fixed-point units per pixel
Scale == 100
\* frames the loop is followed for
MaxFrames == 9

----------------------------------------------------------------------------
(* config, script.js lines 11-19, and the literals of update()/animate() *)

Spacing == 40
Influence == 150
\* force 0.6, damping 0.9, tension 0.05, as hundredths
ForcePct == 60
DampingPct == 90
TensionPct == 5
\* off-screen cursor sentinel
Sentinel == -1000
\* amplitude of the ambient drift, in pixels
DriftAmp == 5
\* mesh lines: margin around the viewport, in pixels
Margin == 50

----------------------------------------------------------------------------
(* Arithmetic *)

Abs(a) == IF a < 0 THEN -a ELSE a

\* a / b for b > 0, rounded to the nearest integer (halves away from zero)
RDiv(a, b) == IF a >= 0 THEN (2 * a + b) \div (2 * b)
                        ELSE -((2 * (-a) + b) \div (2 * b))

\* Math.ceil(a / b) for integers a >= 0, b > 0
CeilDiv(a, b) == (a + b - 1) \div b

RECURSIVE SqrtIn(_, _, _)
SqrtIn(n, lo, hi) ==
  IF lo >= hi THEN lo
  ELSE LET mid == (lo + hi + 1) \div 2
       IN IF mid * mid <= n THEN SqrtIn(n, mid, hi) ELSE SqrtIn(n, lo, mid - 1)

\* Math.sqrt on a non-negative integer below 2^30, rounded down
Sqrt(n) == SqrtIn(n, 0, 32767)

\* Math.sin, argument in hundredths of a radian, result times amp (Bhaskara's
\* rational approximation of the sine on a half period)
SinTimes(x, amp) ==
  LET r == x % 628
      h == IF r < 314 THEN r ELSE r - 314
      p == h * (314 - h)
      v == RDiv(16 * p * amp, 492980 - 4 * p)
  IN IF r < 314 THEN v ELSE -v

CosTimes(x, amp) == SinTimes(x + 157, amp)

----------------------------------------------------------------------------
(* class Point *)

\* constructor(x, y), in pixels
NewPoint(x, y) ==
  [originX |-> x * Scale, originY |-> y * Scale,
   x |-> x * Scale, y |-> y * Scale, vx |-> 0, vy |-> 0]

\* the test of line 37: distance < config.influence (mx, my in pixels)
InInfluence(p, mx, my) ==
  LET dx == mx * Scale - p.x
      dy == my * Scale - p.y
      I  == Influence * Scale
  IN /\ Abs(dx) < I
     /\ Abs(dy) < I
     /\ dx * dx + dy * dy < I * I

\* Repel with the angle guarded at distance 0: no push there
RepelGuarded(p, mx, my) ==
  IF ~InInfluence(p, mx, my) THEN p
  ELSE LET dx == mx * Scale - p.x
           dy == my * Scale - p.y
           I  == Influence * Scale
           distance == Sqrt(dx * dx + dy * dy)
           fF == RDiv((I - distance) * ForcePct * Scale, I * 100)
           cosF == IF distance = 0 THEN 0 ELSE RDiv(dx * fF, distance)
           sinF == IF distance = 0 THEN 0 ELSE RDiv(dy * fF, distance)
       IN [p EXCEPT !.vx = p.vx - cosF, !.vy = p.vy - sinF]

\* lines 33-42: the cursor repulsion
Repel(p, mx, my) ==
  IF ~InInfluence(p, mx, my) THEN p
  ELSE LET dx == mx * Scale - p.x
           dy == my * Scale - p.y
           I  == Influence * Scale
           distance == Sqrt(dx * dx + dy * dy)
           \* f * config.force, in units
           fF == RDiv((I - distance) * ForcePct * Scale, I * 100)
           \* Math.atan2(0, 0) is 0: cos 1, sin 0
           cosF == IF distance = 0 THEN fF ELSE RDiv(dx * fF, distance)
           sinF == IF distance = 0 THEN 0 ELSE RDiv(dy * fF, distance)
       IN [p EXCEPT !.vx = p.vx - cosF, !.vy = p.vy - sinF]

\* lines 46-48: the drift of the anchor at clock t (milliseconds)
DriftX(p, t, amp) == SinTimes(t \div 10 + RDiv(p.originY * 5, Scale), amp * Scale)
DriftY(p, t, amp) == CosTimes(t \div 10 + RDiv(p.originX * 5, Scale), amp * Scale)

\* SpringMove without the damping of lines 57-58
SpringMoveUndamped(p, t, amp) ==
  LET ox == (p.originX + DriftX(p, t, amp)) - p.x
      oy == (p.originY + DriftY(p, t, amp)) - p.y
      vx == p.vx + RDiv(ox * TensionPct, 100)
      vy == p.vy + RDiv(oy * TensionPct, 100)
  IN [p EXCEPT !.vx = vx, !.vy = vy, !.x = p.x + vx, !.y = p.y + vy]

\* lines 50-62: spring to (origin + drift), damping, move
SpringMove(p, t, amp) ==
  LET ox == (p.originX + DriftX(p, t, amp)) - p.x
      oy == (p.originY + DriftY(p, t, amp)) - p.y
      vx == RDiv((p.vx + RDiv(ox * TensionPct, 100)) * DampingPct, 100)
      vy == RDiv((p.vy + RDiv(oy * TensionPct, 100)) * DampingPct, 100)
  IN [p EXCEPT !.vx = vx, !.vy = vy, !.x = p.x + vx, !.y = p.y + vy]

\* update() that springs back to the drifted anchor by moving the anchor there
UpdateMovesAnchor(p, mx, my, t, amp) ==
  LET q == SpringMove(Repel(p, mx, my), t, amp)
  IN [q EXCEPT !.originX = p.originX + DriftX(p, t, amp),
               !.originY = p.originY + DriftY(p, t, amp)]

\* update()
Update(p, mx, my, t, amp) == SpringMove(Repel(p, mx, my), t, amp)

----------------------------------------------------------------------------
(* initGrid, for a canvas of W x H pixels and spacing s *)

InitGrid(W, H, s) ==
  LET cols == CeilDiv(W, s) + 2
      rows == CeilDiv(H, s) + 2
  IN [k \in 1..(cols * rows) |->
        LET i == (k - 1) \div rows
            j == (k - 1) % rows
        IN NewPoint(-s + i * s, -s + j * s)]

----------------------------------------------------------------------------
(* animate(): the frame *)

\* lines 109-112: every point updated, in order
RECURSIVE UpdateFrom(_, _, _, _, _)
UpdateFrom(pts, k, mx, my, t) ==
  IF k > Len(pts) THEN <<>>
  ELSE <<Update(pts[k], mx, my, t, DriftAmp)>> \o UpdateFrom(pts, k + 1, mx, my, t)

UpdateAll(pts, mx, my, t) == UpdateFrom(pts, 1, mx, my, t)

\* Visible with the two vertical tests left out
VisibleAcross(p, W, H) ==
  ~(\/ p.x < -Margin * Scale
    \/ p.x > (W + Margin) * Scale)

\* line 118, negated: the point is inside the viewport plus the margin
Visible(p, W, H) ==
  ~(\/ p.x < -Margin * Scale
    \/ p.x > (W + Margin) * Scale
    \/ p.y < -Margin * Scale
    \/ p.y > (H + Margin) * Scale)

\* points.find(...): index of the first point whose anchor is within one pixel
\* of (ax, ay), 0 when there is none
FindAnchor(pts, ax, ay) ==
  LET S == {k \in DOMAIN pts :
              /\ Abs(pts[k].originX - ax) < Scale
              /\ Abs(pts[k].originY - ay) < Scale}
  IN IF S = {} THEN 0 ELSE CHOOSE k \in S : \A m \in S : k <= m

\* lines 118-131 for the point of index i: its moveTo/lineTo pairs
SegmentsOf(pts, i, W, H) ==
  LET p == pts[i]
      r == FindAnchor(pts, p.originX + Spacing * Scale, p.originY)
      b == FindAnchor(pts, p.originX, p.originY + Spacing * Scale)
  IN IF ~Visible(p, W, H) THEN <<>>
     ELSE (IF r # 0 THEN <<[from |-> i, to |-> r]>> ELSE <<>>)
          \o (IF b # 0 THEN <<[from |-> i, to |-> b]>> ELSE <<>>)

RECURSIVE MeshFrom(_, _, _, _)
MeshFrom(pts, i, W, H) ==
  IF i > Len(pts) THEN <<>>
  ELSE SegmentsOf(pts, i, W, H) \o MeshFrom(pts, i + 1, W, H)

\* lines 115-132: the path stroked at line 136
Mesh(pts, W, H) == MeshFrom(pts, 1, W, H)

\* animate() that ends without line 138
NoReschedule(pending) == pending - 1

\* line 138: the callback that ran is gone, one is requested
Reschedule(pending) == (pending - 1) + 1

----------------------------------------------------------------------------
(* Inputs *)

\* window sizes (innerWidth, innerHeight)
Viewports == {<<1, 1>>, <<40, 0>>}
\* pointer positions (clientX, clientY)
Pointers == {<<39, 0>>}
\* milliseconds between two frames
FrameMs == {16}
\* the clock when the script runs
StartClocks == {0, 1500}

----------------------------------------------------------------------------
(* The renderer *)

InitRenderer ==
  /\ canvas \in BOOLEAN
  /\ ctx \in BOOLEAN
  /\ ctx => canvas
  /\ \E v \in Viewports : innerW = v[1] /\ innerH = v[2]
  /\ width = 0
  /\ height = 0
  /\ points = <<>>
  /\ mouseX = Sentinel
  /\ mouseY = Sentinel
  /\ pc = "load"
  /\ listeners = {}
  /\ pendingFrames = 0
  /\ frames = 0
  /\ now \in StartClocks
  /\ segments = <<>>
  /\ repelled = {}
  /\ discarded = FALSE
  /\ lastEvent = "none"
  /\ lastClient = <<Sentinel, Sentinel>>

\* lines 141-156: the script runs
Startup ==
  /\ pc = "load"
  /\ pc' = "run"
  /\ lastEvent' = "startup"
  /\ UNCHANGED <<canvas, ctx, innerW, innerH, mouseX, mouseY, now, discarded,
                 lastClient, fvars, bench, lattice>>
  /\ IF ~canvas
     THEN UNCHANGED <<width, height, points, listeners, pendingFrames, frames,
                      segments, repelled>>
     ELSE /\ width' = innerW
          /\ height' = innerH
          /\ listeners' = {"resize", "mousemove", "mouseleave"}
          /\ IF ~ctx
             THEN /\ points' = InitGrid(innerW, innerH, Spacing)
                  /\ UNCHANGED <<pendingFrames, frames, segments, repelled>>
             ELSE LET grid == InitGrid(innerW, innerH, Spacing)
                  IN /\ points' = UpdateAll(grid, mouseX, mouseY, now)
                     /\ repelled' = {k \in DOMAIN grid :
                                       InInfluence(grid[k], mouseX, mouseY)}
                     /\ segments' = Mesh(points', innerW, innerH)
                     /\ pendingFrames' = pendingFrames + 1
                     /\ frames' = frames + 1

\* some point is off its anchor with a velocity
InMotion(pts) ==
  \E k \in DOMAIN pts :
    /\ pts[k].vx # 0 \/ pts[k].vy # 0
    /\ pts[k].x # pts[k].originX \/ pts[k].y # pts[k].originY

\* resizeCanvas() whose initGrid() lacks line 75: the new points are appended
ResizeAppends(W, H) ==
  /\ pc = "run"
  /\ "resize" \in listeners
  /\ innerW' = W
  /\ innerH' = H
  /\ width' = W
  /\ height' = H
  /\ discarded' = InMotion(points)
  /\ points' = points \o InitGrid(W, H, Spacing)
  /\ lastEvent' = "resize"
  /\ UNCHANGED <<canvas, ctx, mouseX, mouseY, pc, listeners, pendingFrames, frames,
                 now, segments, repelled, lastClient, fvars, bench, lattice>>

\* the resize handler: resizeCanvas() with the window now W x H
Resize(W, H) ==
  /\ pc = "run"
  /\ "resize" \in listeners
  /\ innerW' = W
  /\ innerH' = H
  /\ width' = W
  /\ height' = H
  /\ discarded' = InMotion(points)
  /\ points' = InitGrid(W, H, Spacing)
  /\ lastEvent' = "resize"
  /\ UNCHANGED <<canvas, ctx, mouseX, mouseY, pc, listeners, pendingFrames, frames,
                 now, segments, repelled, lastClient, fvars, bench, lattice>>

\* the mousemove handler, lines 146-150
MouseMove(x, y) ==
  /\ pc = "run"
  /\ "mousemove" \in listeners
  /\ mouseX' = x
  /\ mouseY' = y
  /\ lastClient' = <<x, y>>
  /\ lastEvent' = "move"
  /\ UNCHANGED <<canvas, ctx, innerW, innerH, width, height, points, pc, listeners,
                 pendingFrames, frames, now, segments, repelled, discarded, fvars,
                 bench, lattice>>

\* the mouseleave handler without line 154
MouseLeaveKeepsY ==
  /\ pc = "run"
  /\ "mouseleave" \in listeners
  /\ mouseX' = Sentinel
  /\ mouseY' = mouseY
  /\ lastEvent' = "leave"
  /\ UNCHANGED <<canvas, ctx, innerW, innerH, width, height, points, pc, listeners,
                 pendingFrames, frames, now, segments, repelled, discarded,
                 lastClient, fvars, bench, lattice>>

\* the mouseleave handler, lines 152-155
MouseLeave ==
  /\ pc = "run"
  /\ "mouseleave" \in listeners
  /\ mouseX' = Sentinel
  /\ mouseY' = Sentinel
  /\ lastEvent' = "leave"
  /\ UNCHANGED <<canvas, ctx, innerW, innerH, width, height, points, pc, listeners,
                 pendingFrames, frames, now, segments, repelled, discarded,
                 lastClient, fvars, bench, lattice>>

\* a requestAnimationFrame callback runs animate(), dt milliseconds after the
\* frame before; the Date.now() calls of one frame read the same millisecond
Animate(dt) ==
  /\ pc = "run"
  /\ pendingFrames > 0
  /\ frames < MaxFrames
  /\ ctx /\ canvas
  /\ now' = (now + dt) % 6283
  /\ points' = UpdateAll(points, mouseX, mouseY, now')
  /\ segments' = Mesh(points', width, height)
  /\ repelled' = {k \in DOMAIN points : InInfluence(points[k], mouseX, mouseY)}
  /\ pendingFrames' = Reschedule(pendingFrames)
  /\ frames' = frames + 1
  /\ lastEvent' = "frame"
  /\ UNCHANGED <<canvas, ctx, innerW, innerH, width, height, mouseX, mouseY, pc,
                 listeners, discarded, lastClient, fvars, bench, lattice>>

ResizeEvent == \E v \in Viewports : Resize(v[1], v[2])
MouseMoveEvent == \E m \in Pointers : MouseMove(m[1], m[2])
Frame == \E dt \in FrameMs : Animate(dt)

----------------------------------------------------------------------------
(* The contact form, lines 231-284.  Strings are sequences of characters.   *)
(* The page is taken to hold #contactForm, #formStatus and the submit      *)
(* button.                                                                 *)

\* String.prototype.trim, over the one whitespace character of the inputs
RECURSIVE Trim(_)
Trim(s) ==
  IF s = <<>> THEN s
  ELSE IF Head(s) = " " THEN Trim(Tail(s))
  ELSE IF s[Len(s)] = " " THEN Trim(SubSeq(s, 1, Len(s) - 1))
  ELSE s

\* line 242: /^[^\s@]+@[^\s@]+\.[^\s@]+$/.test(email)
ValidEmail(s) ==
  \E i \in 1..Len(s) : \E k \in 1..Len(s) :
    /\ s[i] = "@"
    /\ s[k] = "."
    /\ 1 < i
    /\ i + 1 < k
    /\ k < Len(s)
    /\ \A m \in (1..Len(s)) \ {i} : s[m] \notin {"@", " "}

\* the label of the submit button in the page, and the texts the handler writes;
\* the module is ASCII, so the cross mark that opens the text of line 278 (U+274C)
\* is written as its JavaScript escape: the string denotes the text of line 278
InitialLabel == "Send Message"
SendingLabel == "Sending..."
MsgFill == "Please fill all fields."
MsgInvalid == "Please enter a valid email address."
MsgSent == "Message sent successfully! I'll get back to you soon."
MsgFailed == "\\u274C Failed to send message. Please try again or email me directly."

\* a form with nothing typed, as form.reset() leaves it
EmptyForm == [name |-> <<>>, email |-> <<>>, message |-> <<>>]

\* what the visitor may have typed
Names == {<<>>, <<" ">>, <<"a">>}
Emails == {<<>>, <<"a", "@", "b">>, <<"a", "@", "b", ".", "c">>,
           <<" ", "a", "@", "b", ".", "c", " ">>, <<"a", " ", "@", "b", ".", "c">>,
           <<"a", "@", "@", "b", ".", "c">>, <<"a", "@", ".", "c">>}
Messages == {<<>>, <<"a">>}

\* submit events the model follows
MaxSubmits == 3

InitForm ==
  /\ fields = EmptyForm
  /\ btnText = InitialLabel
  /\ btnDisabled = FALSE
  /\ statusText = ""
  /\ sends = {}
  /\ submits = 0

\* the visitor edits the fields
Edit ==
  /\ \E n \in Names : \E e \in Emails : \E m \in Messages :
       fields' = [name |-> n, email |-> e, message |-> m]
  /\ UNCHANGED <<btnText, btnDisabled, statusText, sends, submits, rvars, bench,
                 lattice>>

\* a submit event: the handler up to its await, lines 234-271
Submit ==
  /\ submits < MaxSubmits
  /\ submits' = submits + 1
  /\ LET name == Trim(fields.name)
         email == Trim(fields.email)
         message == Trim(fields.message)
     IN IF name = <<>> \/ email = <<>> \/ message = <<>>
        THEN /\ statusText' = MsgFill
             /\ UNCHANGED <<btnText, btnDisabled, sends>>
        ELSE IF ~ValidEmail(email)
        THEN /\ statusText' = MsgInvalid
             /\ UNCHANGED <<btnText, btnDisabled, sends>>
        ELSE /\ sends' = sends \cup {[id |-> submits + 1, originalText |-> btnText]}
             /\ btnText' = SendingLabel
             /\ btnDisabled' = TRUE
             /\ statusText' = ""
  /\ UNCHANGED <<fields, rvars, bench, lattice>>

\* emailjs.send() resolves: lines 273-275, then finally
SendResolves(s) ==
  /\ s \in sends
  /\ sends' = sends \ {s}
  /\ statusText' = MsgSent
  /\ fields' = EmptyForm
  /\ btnText' = s.originalText
  /\ btnDisabled' = FALSE
  /\ UNCHANGED <<submits, rvars, bench, lattice>>

\* emailjs.send() rejects: catch, then finally
SendRejects(s) ==
  /\ s \in sends
  /\ sends' = sends \ {s}
  /\ statusText' = MsgFailed
  /\ btnText' = s.originalText
  /\ btnDisabled' = FALSE
  /\ UNCHANGED <<fields, submits, rvars, bench, lattice>>

SendSucceeds == \E s \in sends : SendResolves(s)
SendFails == \E s \in sends : SendRejects(s)

----------------------------------------------------------------------------
(* One Point driven through update(), with the drift amplitude as a parameter *)

\* updates applied to the point
MaxSteps == 12

\* where the point starts from its anchor (pixels) and how fast (units a frame)
BenchAnchors == {<<0, 0>>, <<40, 80>>}
BenchOffsets == {<<0, 0>>, <<10, 0>>, <<-20, 15>>, <<30, 30>>, <<0, -25>>}
BenchSpeeds == {<<0, 0>>, <<150, -80>>}
\* the cursor, relative to the point (pixels); "away" is the sentinel
BenchCursors == {"away", "at", "near"}

BenchInit ==
  \E a \in BenchAnchors : \E o \in BenchOffsets : \E v \in BenchSpeeds :
  \E c \in BenchCursors : \E amp \in {0, DriftAmp} : \E t \in StartClocks :
    LET p == [NewPoint(a[1], a[2]) EXCEPT
                !.x = (a[1] + o[1]) * Scale, !.y = (a[2] + o[2]) * Scale,
                !.vx = v[1], !.vy = v[2]]
    IN bench = [p |-> p, start |-> p, prev |-> p, mid |-> p, n |-> 0,
                mx |-> CASE c = "away" -> Sentinel
                         [] c = "at" -> a[1] + o[1]
                         [] OTHER -> a[1] + o[1] + 3,
                my |-> CASE c = "away" -> Sentinel
                         [] c = "at" -> a[2] + o[2]
                         [] OTHER -> a[2] + o[2] + 4,
                amp |-> amp, t |-> t]

\* p.update() once more, 16 ms later; prev and mid keep the point as it was before
\* the call and after the repulsion step
BenchUpdate ==
  /\ bench.n < MaxSteps
  /\ LET t == (bench.t + 16) % 6283
     IN bench' = [bench EXCEPT
                    !.prev = bench.p,
                    !.mid = Repel(bench.p, bench.mx, bench.my),
                    !.p = Update(bench.p, bench.mx, bench.my, t, bench.amp),
                    !.n = bench.n + 1,
                    !.t = t]
  /\ UNCHANGED <<rvars, fvars, lattice>>

----------------------------------------------------------------------------
(* initGrid() on its own, over viewports and spacings *)

MaxDim == 9
MaxSpacing == 4

LatticeInit ==
  \E W \in 0..MaxDim : \E H \in 0..MaxDim : \E s \in 1..MaxSpacing :
    lattice = [W |-> W, H |-> H, s |-> s, built |-> FALSE, pts |-> <<>>]

BuildGrid ==
  /\ ~lattice.built
  /\ lattice' = [lattice EXCEPT !.built = TRUE,
                                !.pts = InitGrid(lattice.W, lattice.H, lattice.s)]
  /\ UNCHANGED <<rvars, fvars, bench>>

----------------------------------------------------------------------------
(* Specifications *)

\* the parts a specification does not exercise stay as they are
RendererOff ==
  /\ canvas = FALSE /\ ctx = FALSE /\ innerW = 0 /\ innerH = 0
  /\ width = 0 /\ height = 0 /\ points = <<>>
  /\ mouseX = Sentinel /\ mouseY = Sentinel /\ pc = "load" /\ listeners = {}
  /\ pendingFrames = 0 /\ frames = 0 /\ now = 0 /\ segments = <<>>
  /\ repelled = {} /\ discarded = FALSE /\ lastEvent = "none"
  /\ lastClient = <<Sentinel, Sentinel>>

BenchOff ==
  LET p == NewPoint(0, 0)
  IN bench = [p |-> p, start |-> p, prev |-> p, mid |-> p, n |-> 0,
              mx |-> Sentinel, my |-> Sentinel, amp |-> 0, t |-> 0]

LatticeOff ==
  lattice = [W |-> 0, H |-> 0, s |-> 1, built |-> FALSE, pts |-> <<>>]

\* the grid renderer
Init == InitRenderer /\ InitForm /\ BenchOff /\ LatticeOff
Next == Startup \/ ResizeEvent \/ MouseMoveEvent \/ MouseLeave \/ Frame
Spec == Init /\ [][Next]_vars
\* a requested frame callback is run: within Next these are the Frame steps
FrameRuns ==
  /\ pc = "run"
  /\ ctx /\ canvas
  /\ pendingFrames > 0
  /\ frames < MaxFrames
  /\ frames' = frames + 1

\* the browser runs every requested frame callback
FairSpec == Spec /\ WF_frames(FrameRuns)

\* the contact form
FormInit == RendererOff /\ InitForm /\ BenchOff /\ LatticeOff
FormNext == Edit \/ Submit \/ SendSucceeds \/ SendFails
FormSpec == FormInit /\ [][FormNext]_vars

\* update() on one point
BenchSpecInit == RendererOff /\ InitForm /\ BenchInit /\ LatticeOff
BenchNext == BenchUpdate
BenchSpec == BenchSpecInit /\ [][BenchNext]_vars

\* initGrid()
LatticeSpecInit == RendererOff /\ InitForm /\ BenchOff /\ LatticeInit
LatticeNext == BuildGrid
LatticeSpec == LatticeSpecInit /\ [][LatticeNext]_vars

----------------------------------------------------------------------------
(* Claims *)

\* the last step was a frame: segments and repelled describe the points as they are
FrameJustRan == lastEvent \in {"frame", "startup"} /\ frames > 0

\* the cursor is at the off-screen sentinel
Idle == mouseX = Sentinel /\ mouseY = Sentinel

\* the point of index k lies more than 50 pixels outside the viewport
Outside(k) ==
  \/ points[k].x < -50 * Scale
  \/ points[k].x > (width + 50) * Scale
  \/ points[k].y < -50 * Scale
  \/ points[k].y > (height + 50) * Scale

\* C1, as claimed: the anchors built by initGrid() for a W x H viewport and spacing
\* s are a lattice of step s from -s whose largest anchor is at least W + s on x
\* and at least H + s on y
C1_LatticeCoversMargin ==
  lattice.built =>
    LET xs == {lattice.pts[k].originX : k \in DOMAIN lattice.pts}
        ys == {lattice.pts[k].originY : k \in DOMAIN lattice.pts}
        s == lattice.s * Scale
    IN /\ \A x \in xs : (x + s) % s = 0 /\ x >= -s
       /\ \A y \in ys : (y + s) % s = 0 /\ y >= -s
       /\ -s \in xs /\ -s \in ys
       /\ \E x \in xs : x >= (lattice.W + lattice.s) * Scale
       /\ \E y \in ys : y >= (lattice.H + lattice.s) * Scale

\* C2: right after a resize the collection holds exactly
\* (ceil(W/s)+2) * (ceil(H/s)+2) points for the new canvas size, one on each
\* lattice anchor, each at rest on its anchor
C2_ResizeRebuilds ==
  lastEvent = "resize" =>
    LET cols == CeilDiv(width, Spacing) + 2
        rows == CeilDiv(height, Spacing) + 2
    IN /\ width = innerW /\ height = innerH
       /\ Len(points) = cols * rows
       /\ \A k \in DOMAIN points :
            /\ points[k].vx = 0 /\ points[k].vy = 0
            /\ points[k].x = points[k].originX
            /\ points[k].y = points[k].originY
       /\ \A i \in 0..(cols - 1) : \A j \in 0..(rows - 1) :
            Cardinality({k \in DOMAIN points :
                           /\ points[k].originX = (i - 1) * Spacing * Scale
                           /\ points[k].originY = (j - 1) * Spacing * Scale}) = 1

\* a resize has just replaced a collection that held points in motion
C2_Witness == lastEvent = "resize" /\ discarded /\ frames > 1

\* C3: the cursor starts at the sentinel, a pointer-move puts it at the event's
\* coordinates (tracking), a pointer-leave puts it back at the sentinel (idle), and
\* a frame that runs while idle takes the repulsion branch for no point
C3_CursorPresence ==
  /\ pc = "load" => Idle
  /\ lastEvent = "move" => ~Idle /\ <<mouseX, mouseY>> = lastClient
  /\ lastEvent = "leave" => Idle
  /\ FrameJustRan /\ Idle => repelled = {}

\* a frame has run idle, after the cursor had been tracked and had left
C3_Witness ==
  /\ lastEvent = "frame"
  /\ Idle
  /\ lastClient # <<Sentinel, Sentinel>>
  /\ InMotion(points)

\* C4, as claimed: without a canvas, or without its 2D context, nothing is done:
\* no points are built, no frame runs, none is scheduled, nothing is drawn
C4_NoSurfaceNoWork ==
  ~(canvas /\ ctx) =>
    /\ points = <<>>
    /\ frames = 0
    /\ pendingFrames = 0
    /\ segments = <<>>

\* C5, as claimed: after a frame, no emitted segment touches (starts or ends at) a
\* point that lies outside the viewport plus the 50-pixel margin
C5_NoSegmentTouchesOutside ==
  FrameJustRan =>
    \A k \in DOMAIN points : Outside(k) =>
      \A i \in DOMAIN segments : segments[i].from # k /\ segments[i].to # k

\* C5, amended: after a frame, no emitted segment starts at (is drawn from, by
\* moveTo) a point that lies outside the viewport plus the 50-pixel margin; such
\* a point may still be the end of a segment drawn from a visible neighbour
C5_NoSegmentStartsOutside ==
  FrameJustRan =>
    \A k \in DOMAIN points : Outside(k) =>
      \A i \in DOMAIN segments : segments[i].from # k

\* a frame has run with a point outside the margin and segments emitted
C5_Witness ==
  /\ FrameJustRan
  /\ segments # <<>>
  /\ \E k \in DOMAIN points : Outside(k)

\* the point was exactly at the cursor when update() was called
BenchAtCursor ==
  /\ bench.n > 0
  /\ bench.prev.x = bench.mx * Scale
  /\ bench.prev.y = bench.my * Scale

\* C6, as claimed: for a point exactly at the cursor the repulsion step leaves the
\* velocity unchanged
C6_ZeroPushAtCursor ==
  BenchAtCursor =>
    /\ bench.mid.vx = bench.prev.vx
    /\ bench.mid.vy = bench.prev.vy

\* C6, amended: for a point exactly at the cursor, update() takes the repulsion
\* branch and pushes with the full force (f = 1) along angle atan2(0, 0) = 0: the
\* repulsion step lowers vx by config.force and leaves vy, and the velocity and
\* position after the update are defined numbers
C6_FullPushAtCursor ==
  BenchAtCursor =>
    /\ InInfluence(bench.prev, bench.mx, bench.my)
    /\ bench.mid.vx = bench.prev.vx - RDiv(ForcePct * Scale, 100)
    /\ bench.mid.vy = bench.prev.vy
    /\ bench.mid.x = bench.prev.x /\ bench.mid.y = bench.prev.y
    /\ bench.p.vx \in Int /\ bench.p.vy \in Int
    /\ bench.p.x = bench.mid.x + bench.p.vx
    /\ bench.p.y = bench.mid.y + bench.p.vy

\* update() has run on a point that was exactly at the cursor
C6_Witness == BenchAtCursor /\ bench.n = 1

\* squared distance of a point to its anchor
Dist2(p) == (p.x - p.originX) * (p.x - p.originX)
            + (p.y - p.originY) * (p.y - p.originY)

\* a tenth of a pixel
Epsilon == Scale \div 10

\* the run of the idle-convergence test: cursor at the sentinel, no drift, the point
\* starts at rest away from its anchor
BenchIdleRun ==
  /\ bench.mx = Sentinel /\ bench.my = Sentinel
  /\ bench.amp = 0
  /\ bench.start.vx = 0 /\ bench.start.vy = 0
  /\ Dist2(bench.start) > 0

\* C7, as claimed: in the idle run every update strictly decreases the distance to
\* the anchor, as long as that distance is not below epsilon
C7_StrictDecrease ==
  [][BenchIdleRun /\ Dist2(bench.p) >= Epsilon * Epsilon
       => Dist2(bench'.p) < Dist2(bench.p)]_vars

\* C7, amended: in the idle run each of the first 8 updates strictly decreases the
\* distance to the anchor; the point then passes its anchor (the spring is
\* underdamped) and the distance grows again, never beyond the initial distance
C7_DecreaseUntilOvershoot ==
  /\ [][BenchIdleRun /\ bench'.n <= 8 => Dist2(bench'.p) < Dist2(bench.p)]_vars
  /\ [](BenchIdleRun /\ bench.n > 0 => Dist2(bench.p) < Dist2(bench.start))

\* the idle run has passed the anchor: the distance has just grown
C7_Witness ==
  /\ BenchIdleRun
  /\ bench.n = 9
  /\ Dist2(bench.p) > Dist2(bench.prev)
  /\ Dist2(bench.prev) >= Epsilon * Epsilon

\* C8: once the script has run with a drawing context, exactly one frame callback
\* is pending between frames, whatever events interleave; a frame consumes it and
\* requests one, and every frame is followed by another (frames are counted one
\* by one, up to MaxFrames)
C8_FrameLoop ==
  /\ [](pc = "run" /\ ctx => pendingFrames = 1)
  /\ [][frames' \in {frames, frames + 1}]_vars
  /\ (pc = "run" /\ ctx) ~> (frames = MaxFrames)

\* frames have followed one another, with events in between
C8_Witness ==
  /\ ctx
  /\ frames >= 3
  /\ pendingFrames = 1
  /\ lastEvent = "move"

\* C9: a frame keeps every point's anchor; the pointer handlers change the cursor
\* coordinates and nothing else of the renderer; the points change only in a
\* frame or a grid rebuild
C9_AnchorsAndHandlers ==
  [][/\ lastEvent' = "frame" =>
          /\ DOMAIN points' = DOMAIN points
          /\ \A k \in DOMAIN points :
               /\ points'[k].originX = points[k].originX
               /\ points'[k].originY = points[k].originY
     /\ lastEvent' \in {"move", "leave"} =>
          UNCHANGED <<points, width, height, frames, pendingFrames, segments,
                      listeners>>
     /\ points' # points => lastEvent' \in {"frame", "resize", "startup"}]_vars

\* a pointer-move has been handled while points were in motion
C9_Witness == lastEvent = "move" /\ InMotion(points) /\ frames > 1

\* C10, as claimed: once every submission has settled, the submit button is enabled
\* and shows the label it had before the first submission
C10_ButtonRestored ==
  submits > 0 /\ sends = {} => ~btnDisabled /\ btnText = InitialLabel

====
